---- MODULE Spec2Model ----
(***************************************************************************)
(* Sidebar of the chat application: the conversation list, its grouping    *)
(* into date buckets, selection, rename and delete.                        *)
(*                                                                         *)
(* Times are whole seconds (the source counts milliseconds; every time of  *)
(* the model is a whole number of seconds, so |a - b| / 86400000 ms and    *)
(* |a - b| / 86400 s have the same ceiling).  The origin of time is local  *)
(* midnight on 1 January of a year of 365 days.                            *)
(* Titles and search strings are sequences of one-character strings.       *)
(***************************************************************************)
EXTENDS Integers, Sequences, FiniteSets, Bags, TLC

VARIABLES
    conversations,             \* useState<Conversation[]>, line 28
    conversationsWithMarkers,  \* useState<Conversation[]>, line 29
    isEditingTitle,            \* line 30
    editedTitle,               \* line 31
    selectedId,                \* line 32
    currentPath,               \* useLocation().pathname, line 35
    now,                       \* the wall clock that new Date() reads
    store,                     \* db.conversations: the stored records
    dbQueue,                   \* store requests issued and not yet executed
    settling,                  \* bag of the executed requests whose callback has not run
    deleted,                   \* ids that deleteConversation was called with
    issued,                    \* how many store requests were issued so far
    phase                      \* "input" before the grouping effect ran, then "shown"

vars == <<conversations, conversationsWithMarkers, isEditingTitle, editedTitle,
          selectedId, currentPath, now, store, dbQueue, settling, deleted, issued, phase>>

----------------------------------------------------------------------------
(* Bounds *)

MaxLen == 3        \* longest list handed to the grouper
MaxConv == 2       \* conversation ids are 1..MaxConv
MaxPending == 2    \* store requests in flight at one time
MaxRequests == 3   \* store requests issued in one run

----------------------------------------------------------------------------
(* Values *)

Null == 0 - 1                \* selectedId: number | null
Hour == 60 * 60
Day == 60 * 60 * 24          \* 1000 * 60 * 60 * 24 ms, in seconds
DaysPerYear == 365

Now0 == 200 * Day + 10 * Hour
Now1 == 232 * Day + 10 * Hour

\* how long before the clock reading a conversation of the grouper's input
\* was stamped (negative: stamped after it)
Ages == {0 - Hour, 0, 24 * Hour, 24 * Hour + 1, 48 * Hour + 1, 7 * Day, 30 * Day,
         30 * Day + 1, 90 * Day}

Range(s) == {s[i] : i \in DOMAIN s}

Abs(x) == IF x < 0 THEN 0 - x ELSE x

Min(S) == CHOOSE m \in S : \A x \in S : m <= x

\* Math.ceil(a / b) for a >= 0, b > 0
Ceil(a, b) == (a + b - 1) \div b

----------------------------------------------------------------------------
(* The Grouper *)

MonthNames == <<"January", "February", "March", "April", "May", "June", "July",
                "August", "September", "October", "November", "December">>
MonthDays == <<31, 28, 31, 30, 31, 30, 31, 31, 30, 31, 30, 31>>

RECURSIVE DaysBefore(_)
DaysBefore(m) == IF m = 1 THEN 0 ELSE DaysBefore(m - 1) + MonthDays[m - 1]

\* date.toLocaleString('default', {month: 'long'})
MonthOf(timestamp) ==
    LET d == (timestamp \div Day) % DaysPerYear
        m == CHOOSE k \in 1..12 : DaysBefore(k) <= d /\ d < DaysBefore(k) + MonthDays[k]
    IN  MonthNames[m]

getHeaderFromTimestamp(timestamp, today) ==
    LET diffTime == Abs(today - timestamp)
        diffDays == Ceil(diffTime, Day)
    IN  IF diffDays = 1 THEN "Today"
        ELSE IF diffDays = 2 THEN "Yesterday"
        ELSE IF diffDays <= 7 THEN "Previous 7 Days"
        ELSE IF diffDays <= 30 THEN "Previous 30 Days"
        ELSE MonthOf(timestamp)

Marker(header) ==
    [id |-> 0, messages |-> "", model |-> "", systemPrompt |-> "", timestamp |-> 0,
     marker |-> TRUE, title |-> header]

\* "marker" in convo
IsMarker(item) == "marker" \in DOMAIN item

\* the loop body without the assignment lastHeader = currentHeader
insertStep_NoLastHeader(acc, convo, today) ==
    LET currentHeader == getHeaderFromTimestamp(convo.timestamp, today)
    IN  IF currentHeader # acc.lastHeader
        THEN [lastHeader |-> acc.lastHeader,
              withMarkers |-> acc.withMarkers \o <<Marker(currentHeader), convo>>]
        ELSE [lastHeader |-> acc.lastHeader,
              withMarkers |-> Append(acc.withMarkers, convo)]

\* the body of convs.forEach: lastHeader and withMarkers after convo
insertStep(acc, convo, today) ==
    LET currentHeader == getHeaderFromTimestamp(convo.timestamp, today)
    IN  IF currentHeader # acc.lastHeader
        THEN [lastHeader |-> currentHeader,
              withMarkers |-> acc.withMarkers \o <<Marker(currentHeader), convo>>]
        ELSE [lastHeader |-> acc.lastHeader,
              withMarkers |-> Append(acc.withMarkers, convo)]

\* convs.forEach over convs[lo], ..., convs[hi] in this order
RECURSIVE insertFrom(_, _, _, _, _)
insertFrom(convs, lo, hi, acc, today) ==
    IF lo > hi THEN acc
    ELSE IF lo = hi THEN insertStep(acc, convs[lo], today)
    ELSE LET mid == (lo + hi) \div 2
             first == insertFrom(convs, lo, mid, acc, today)
         IN  IF first.withMarkers # <<>>    \* convs[lo], ..., convs[mid] come first
             THEN insertFrom(convs, mid + 1, hi, first, today)
             ELSE first

insertTimeMarkers(convs, today) ==
    insertFrom(convs, 1, Len(convs), [lastHeader |-> "", withMarkers |-> <<>>], today).withMarkers

\* the insertion with the comparator a.timestamp - b.timestamp
InsertSorted_Ascending(sorted, c) ==
    LET behind == {i \in DOMAIN sorted : c.timestamp - sorted[i].timestamp < 0}
        at == IF behind = {} THEN Len(sorted) + 1 ELSE Min(behind)
    IN  SubSeq(sorted, 1, at - 1) \o <<c>> \o SubSeq(sorted, at, Len(sorted))

\* [...].sort((a, b) => b.timestamp - a.timestamp): stable, so an element goes
\* behind the elements that compare equal to it and came before it, in front
\* of the first element that the comparator puts behind it
InsertSorted(sorted, c) ==
    LET behind == {i \in DOMAIN sorted : sorted[i].timestamp - c.timestamp < 0}
        at == IF behind = {} THEN Len(sorted) + 1 ELSE Min(behind)
    IN  SubSeq(sorted, 1, at - 1) \o <<c>> \o SubSeq(sorted, at, Len(sorted))

\* sorted with convs[lo], ..., convs[hi] inserted in this order
RECURSIVE InsertAll(_, _, _, _)
InsertAll(sorted, convs, lo, hi) ==
    IF lo > hi THEN sorted
    ELSE IF lo = hi THEN InsertSorted(sorted, convs[lo])
    ELSE LET mid == (lo + hi) \div 2
             first == InsertAll(sorted, convs, lo, mid)
         IN  IF first # <<>>    \* convs[lo], ..., convs[mid] come first
             THEN InsertAll(first, convs, mid + 1, hi)
             ELSE first

sortByTimestamp(convs) == InsertAll(<<>>, convs, 1, Len(convs))

\* the effect on [conversations], lines 74-77
Display(convs, today) == insertTimeMarkers(sortByTimestamp(convs), today)

----------------------------------------------------------------------------
(* The conversation store and the requests in flight.  A request is put    *)
(* on dbQueue by the handler that issues it, the store executes the        *)
(* requests in the order of issue, and the callback of an executed request *)
(* runs later, in any order.                                               *)

Conv(i, t, ts, msgs) ==
    [id |-> i, title |-> t, model |-> "gpt", systemPrompt |-> "", timestamp |-> ts,
     messages |-> msgs]

Ids(S) == {c.id : c \in S}

Max(S) == CHOOSE m \in S : \A x \in S : x <= m

Req(op, id, text, closure) == [op |-> op, id |-> id, text |-> text, closure |-> closure]

RootPath == <<>>
ConvPath(n) == <<"c", n>>

\* currentPath.split('/c/')[1]
itemId(path) == IF Len(path) = 2 THEN path[2] ELSE Null

\* the conversations of S with an id in lo..hi, in ascending order of the key
RECURSIVE ByKeyIn(_, _, _)
ByKeyIn(S, lo, hi) ==
    IF lo > hi THEN <<>>
    ELSE IF lo = hi
         THEN LET hit == {c \in S : c.id = lo}
              IN  IF hit = {} THEN <<>> ELSE <<CHOOSE c \in hit : TRUE>>
         ELSE LET mid == (lo + hi) \div 2
              IN  ByKeyIn(S, lo, mid) \o ByKeyIn(S, mid + 1, hi)

ByKey(S) == IF S = {} THEN <<>> ELSE ByKeyIn(S, Min(Ids(S)), Max(Ids(S)))

\* the index on timestamp: c goes behind the rows that are not later than it
InsertByTimestamp(sorted, c) ==
    LET later == {i \in DOMAIN sorted : sorted[i].timestamp > c.timestamp}
        at == IF later = {} THEN Len(sorted) + 1 ELSE Min(later)
    IN  SubSeq(sorted, 1, at - 1) \o <<c>> \o SubSeq(sorted, at, Len(sorted))

RECURSIVE OrderByTimestamp(_, _, _, _)
OrderByTimestamp(sorted, rows, lo, hi) ==
    IF lo > hi THEN sorted
    ELSE IF lo = hi THEN InsertByTimestamp(sorted, rows[lo])
    ELSE LET mid == (lo + hi) \div 2
             first == OrderByTimestamp(sorted, rows, lo, mid)
         IN  IF first # <<>>    \* rows[lo], ..., rows[mid] come first
             THEN OrderByTimestamp(first, rows, mid + 1, hi)
             ELSE first

Reverse(s) == [i \in DOMAIN s |-> s[Len(s) + 1 - i]]

\* orderBy('timestamp').reverse(): descending timestamp, then descending key
RecentFirst(S) ==
    Reverse(OrderByTimestamp(<<>>, ByKey(S), 1, Cardinality(S)))

Take(s, n) == SubSeq(s, 1, IF Len(s) < n THEN Len(s) ELSE n)

Contains(title, text) ==
    \E k \in 0..(Len(title) - Len(text)) : SubSeq(title, k + 1, k + Len(text)) = text

\* the test without the call of trim()
trim_Omitted(str) == str

\* searchString.trim()
RECURSIVE trim(_)
trim(str) ==
    IF str = <<>> THEN str
    ELSE IF Head(str) = " " THEN trim(Tail(str))
    ELSE IF str[Len(str)] = " " THEN trim(SubSeq(str, 1, Len(str) - 1))
    ELSE str

NUM_INITIAL_CONVERSATIONS == 200

Rows(rows) == [ok |-> TRUE, count |-> Len(rows), rows |-> rows]
Count(n) == [ok |-> TRUE, count |-> n, rows |-> <<>>]

\* what the store answers to a request that it executes
StoreResult(r, S) ==
    IF r.op = "get" THEN Rows(ByKey({c \in S : c.id = r.id}))
    ELSE IF r.op = "load" THEN Rows(Take(RecentFirst(S), r.id))
    ELSE IF r.op = "search" THEN Rows(ByKey({c \in S : Contains(c.title, r.text)}))
    ELSE IF r.op = "update" THEN Count(Cardinality({c \in S : c.id = r.id}))
    ELSE Count(0)

\* what the store holds after it executed a request
StoreAfter(r, S) ==
    IF r.op = "update"
    THEN {IF c.id = r.id THEN [c EXCEPT !.title = r.text] ELSE c : c \in S}
    ELSE IF r.op = "delete" THEN {c \in S : c.id # r.id}
    ELSE S

InFlight == Len(dbQueue) + BagCardinality(settling)
CanIssue == InFlight < MaxPending /\ issued < MaxRequests

----------------------------------------------------------------------------
(* The Sidebar *)

TypedTitles == {<<"b">>}
NewTitle == <<"n">>
SearchTexts == {<<>>, <<" ">>, <<"a">>}
\* e.relatedTarget of the blur: the control that takes the focus
BlurTargets == {"cancel", "accept", "item", "outside"}

InitialStore == {Conv(1, <<"a">>, Now0 - 2 * Day, "msgs")}

\* the conversations of the rendered list, line 308
NotMarker(item) == ~IsMarker(item)
Shown == Range(SelectSeq(conversationsWithMarkers, NotMarker))

\* the item rendered by the branch convo.id === selectedId, line 321
SelectedShown == \E c \in Shown : c.id = selectedId
SelectedConvo == CHOOSE c \in Shown : c.id = selectedId

\* the title input and the accept and cancel buttons are rendered, lines 330, 359
EditShown == SelectedShown /\ isEditingTitle

\* acceptButtonRef.current: the accept button while it is mounted
acceptButtonRef == EditShown

\* the [currentPath] effect, lines 37-55, run for a path that differs from
\* currentPath: the selection and the queue it leaves
RouteEffect(path, sel, queue) ==
    IF path = currentPath THEN [selectedId |-> sel, dbQueue |-> queue]
    ELSE IF itemId(path) # Null
         THEN [selectedId |-> sel,
               dbQueue |-> Append(queue, Req("get", itemId(path), <<>>, <<>>))]
         ELSE [selectedId |-> Null, dbQueue |-> queue]

WithPlaceholder(c) == [c EXCEPT !.messages = "[]"]
WithPlaceholders(rows) == [i \in DOMAIN rows |-> WithPlaceholder(rows[i])]

\* the request of loadConversations, lines 79-84
LoadRequest == Req("load", NUM_INITIAL_CONVERSATIONS, <<>>, <<>>)

\* the request of saveEditedTitle, lines 147-148, with the conversations and
\* the editedTitle of the render that the callback closes over
saveEditedTitle(conversation) ==
    Req("update", conversation.id, editedTitle, conversations)

Init ==
    /\ conversations = <<>>
    /\ conversationsWithMarkers = <<>>
    /\ isEditingTitle = FALSE
    /\ editedTitle = <<>>
    /\ selectedId = Null
    /\ currentPath = RootPath
    /\ now = Now0
    /\ store = InitialStore
    /\ dbQueue = <<LoadRequest>>
    /\ settling = EmptyBag
    /\ deleted = {}
    /\ issued = 1
    /\ phase = "shown"

\* setConversations followed by the effect on [conversations]
SetConversations(convs) ==
    /\ conversations' = convs
    /\ conversationsWithMarkers' = Display(convs, now)

NoListChange == UNCHANGED <<conversations, conversationsWithMarkers>>
\* the handlers do not read the clock; the Sidebar is followed at one clock
\* reading, the Grouper is given others below
NoClockChange == UNCHANGED <<now, phase>>
Counted == issued' = issued + (IF Len(dbQueue') > Len(dbQueue) THEN 1 ELSE 0)

\* browser navigation to a path
RouteChange(path) ==
    /\ path # currentPath
    /\ itemId(path) # Null => CanIssue
    /\ currentPath' = path
    /\ selectedId' = RouteEffect(path, selectedId, dbQueue).selectedId
    /\ dbQueue' = RouteEffect(path, selectedId, dbQueue).dbQueue
    /\ NoListChange /\ NoClockChange
    /\ UNCHANGED <<isEditingTitle, editedTitle, store, settling, deleted>>
    /\ Counted

\* the new-chat control, lines 94-96
handleNewChat ==
    /\ currentPath # RootPath
    /\ currentPath' = RootPath
    /\ selectedId' = RouteEffect(RootPath, selectedId, dbQueue).selectedId
    /\ NoListChange /\ NoClockChange
    /\ UNCHANGED <<isEditingTitle, editedTitle, store, dbQueue, settling, deleted>>
    /\ Counted

\* a conversation is created elsewhere: the store holds it and the event bus
\* delivers it, lines 60-63.  A title input that the new selection unmounts
\* gets no blur event.
\* the id that the store gives to the next conversation
NextId == Max(Ids(store) \cup deleted \cup {0}) + 1

\* eventEmitter.on('newConversation', handleNewConversation), for the
\* conversation that the chat view has just put into the store
newConversation(conversation) ==
    /\ store' = store \cup {conversation}
    /\ selectedId' = conversation.id
    /\ SetConversations(<<conversation>> \o conversations)
    /\ NoClockChange
    /\ UNCHANGED <<isEditingTitle, editedTitle, currentPath, dbQueue, settling, deleted>>
    /\ Counted

handleNewConversation ==
    /\ Ids(store) \cup deleted # {}
    /\ NextId <= MaxConv
    /\ newConversation(Conv(NextId, NewTitle, now, "msgs"))

\* the trash control of the selected item, lines 98-110 and 390
deleteConversation ==
    /\ SelectedShown /\ ~isEditingTitle
    /\ CanIssue
    /\ LET conversationId == SelectedConvo.id
           Keep(c) == c.id # conversationId
           queue == Append(dbQueue, Req("delete", conversationId, <<>>, <<>>))
       IN  /\ SetConversations(SelectSeq(conversations, Keep))
           /\ currentPath' = RootPath
           /\ selectedId' = RouteEffect(RootPath, Null, queue).selectedId
           /\ dbQueue' = RouteEffect(RootPath, Null, queue).dbQueue
           /\ deleted' = deleted \cup {conversationId}
    /\ NoClockChange
    /\ UNCHANGED <<isEditingTitle, editedTitle, store, settling>>
    /\ Counted

\* a click on an item that is not the selected one, lines 112-122 and 407
selectConversation(conversation) ==
    /\ conversation \in Shown
    /\ conversation.id # selectedId
    /\ ConvPath(conversation.id) # currentPath => CanIssue
    /\ IF isEditingTitle
       THEN isEditingTitle' = FALSE /\ editedTitle' = <<>>
       ELSE UNCHANGED <<isEditingTitle, editedTitle>>
    /\ currentPath' = ConvPath(conversation.id)
    /\ selectedId' = RouteEffect(ConvPath(conversation.id), conversation.id, dbQueue).selectedId
    /\ dbQueue' = RouteEffect(ConvPath(conversation.id), conversation.id, dbQueue).dbQueue
    /\ NoListChange /\ NoClockChange
    /\ UNCHANGED <<store, settling, deleted>>
    /\ Counted

\* the pencil control of the selected item, lines 206-215 and 384
toggleEditMode ==
    /\ SelectedShown /\ ~isEditingTitle
    /\ IF ~isEditingTitle
       THEN editedTitle' = SelectedConvo.title
       ELSE editedTitle' = <<>>
    /\ isEditingTitle' = ~isEditingTitle
    /\ NoListChange /\ NoClockChange
    /\ UNCHANGED <<selectedId, currentPath, store, dbQueue, settling, deleted>>
    /\ Counted

\* typing in the title input, line 337
titleChange(text) ==
    /\ EditShown
    /\ text # editedTitle
    /\ editedTitle' = text
    /\ NoListChange /\ NoClockChange
    /\ UNCHANGED <<isEditingTitle, selectedId, currentPath, store, dbQueue, settling, deleted>>
    /\ Counted

\* Enter in the title input, lines 139-144
handleTitleInputKeyPress ==
    /\ EditShown
    /\ CanIssue
    /\ dbQueue' = Append(dbQueue, saveEditedTitle(SelectedConvo))
    /\ NoListChange /\ NoClockChange
    /\ UNCHANGED <<isEditingTitle, editedTitle, selectedId, currentPath, store, settling, deleted>>
    /\ Counted

\* the accept control, lines 363-365
acceptClick ==
    /\ EditShown
    /\ CanIssue
    /\ dbQueue' = Append(dbQueue, saveEditedTitle(SelectedConvo))
    /\ NoListChange /\ NoClockChange
    /\ UNCHANGED <<isEditingTitle, editedTitle, selectedId, currentPath, store, settling, deleted>>
    /\ Counted

\* the cancel control, lines 372-375
cancelClick ==
    /\ EditShown
    /\ isEditingTitle' = FALSE
    /\ editedTitle' = <<>>
    /\ NoListChange /\ NoClockChange
    /\ UNCHANGED <<selectedId, currentPath, store, dbQueue, settling, deleted>>
    /\ Counted

\* the title input loses the focus to target, lines 170-178 and 342-346
handleInputBlur(target) ==
    /\ EditShown
    /\ target = "item" => \E c \in Shown : c.id # selectedId
    /\ acceptButtonRef => CanIssue
    /\ IF acceptButtonRef
       THEN dbQueue' = Append(dbQueue, saveEditedTitle(SelectedConvo))
       ELSE UNCHANGED dbQueue
    /\ editedTitle' = SelectedConvo.title
    /\ isEditingTitle' = FALSE
    /\ NoListChange /\ NoClockChange
    /\ UNCHANGED <<selectedId, currentPath, store, settling, deleted>>
    /\ Counted

\* the context menu of the accept control, lines 180-182 and 367
handleContextMenu ==
    /\ EditShown
    /\ isEditingTitle' = FALSE
    /\ NoListChange /\ NoClockChange
    /\ UNCHANGED <<editedTitle, selectedId, currentPath, store, dbQueue, settling, deleted>>
    /\ Counted

\* Enter in the search input or the search control, lines 217-233
handleSearch(searchString) ==
    /\ CanIssue
    /\ IF searchString = <<>> \/ trim(searchString) = <<>>
       THEN dbQueue' = Append(dbQueue, LoadRequest)
       ELSE dbQueue' = Append(dbQueue, Req("search", 0, searchString, <<>>))
    /\ NoListChange /\ NoClockChange
    /\ UNCHANGED <<isEditingTitle, editedTitle, selectedId, currentPath, store, settling, deleted>>
    /\ Counted

\* the store executes the oldest request, or fails it.  The callers give the
\* delete no callback (line 100), the lookup and the load no rejection handler
\* (lines 41, 85), and the handlers of a rejected search (line 231) and of a
\* rejected update (line 166) only log: a failed request leaves no callback
\* that changes the state.
StoreExec(fails) ==
    /\ dbQueue # <<>>
    /\ LET r == Head(dbQueue)
       IN  /\ dbQueue' = Tail(dbQueue)
           /\ store' = IF fails THEN store ELSE StoreAfter(r, store)
           /\ settling' = IF r.op = "delete" \/ fails THEN settling
                          ELSE settling (+) SetToBag({[req |-> r, res |-> StoreResult(r, store)]})
    /\ NoListChange /\ NoClockChange
    /\ UNCHANGED <<isEditingTitle, editedTitle, selectedId, currentPath, deleted>>
    /\ Counted

\* getConversationById(n).then, lines 41-47
lookupSettles(done) ==
    /\ BagIn(done, settling) /\ done.req.op = "get"
    /\ settling' = settling (-) SetToBag({done})
    /\ IF done.res.ok /\ done.res.rows # <<>>
       THEN selectedId' = done.res.rows[1].id
       ELSE UNCHANGED selectedId
    /\ NoListChange /\ NoClockChange
    /\ UNCHANGED <<isEditingTitle, editedTitle, currentPath, store, dbQueue, deleted>>
    /\ Counted

\* the completion behind a fence: an answer is dropped while another store
\* request is in flight
listSettles_Fenced(done) ==
    /\ BagIn(done, settling) /\ done.req.op \in {"load", "search"}
    /\ settling' = settling (-) SetToBag({done})
    /\ IF done.res.ok /\ InFlight = 1
       THEN SetConversations(WithPlaceholders(done.res.rows))
       ELSE NoListChange
    /\ NoClockChange
    /\ UNCHANGED <<isEditingTitle, editedTitle, selectedId, currentPath, store, dbQueue, deleted>>
    /\ Counted

\* toArray().then, lines 85-91, and the continuation of the await, lines 224-232
listSettles(done) ==
    /\ BagIn(done, settling) /\ done.req.op \in {"load", "search"}
    /\ settling' = settling (-) SetToBag({done})
    /\ IF done.res.ok
       THEN SetConversations(WithPlaceholders(done.res.rows))
       ELSE NoListChange
    /\ NoClockChange
    /\ UNCHANGED <<isEditingTitle, editedTitle, selectedId, currentPath, store, dbQueue, deleted>>
    /\ Counted

\* the list that the callback of saveEditedTitle sets, lines 152-157
Retitled(convs, id, title) ==
    [i \in DOMAIN convs |-> IF convs[i].id = id THEN [convs[i] EXCEPT !.title = title]
                            ELSE convs[i]]

\* update(...).then and .catch, lines 149-167
updateSettles(done) ==
    /\ BagIn(done, settling) /\ done.req.op = "update"
    /\ settling' = settling (-) SetToBag({done})
    /\ IF done.res.ok /\ done.res.count > 0
       THEN /\ SetConversations(Retitled(done.req.closure, done.req.id,
                                         done.req.text))
            /\ isEditingTitle' = FALSE
       ELSE NoListChange /\ UNCHANGED isEditingTitle
    /\ NoClockChange
    /\ UNCHANGED <<editedTitle, selectedId, currentPath, store, dbQueue, deleted>>
    /\ Counted

Next ==
    \/ \E n \in 1..MaxConv : RouteChange(ConvPath(n))
    \/ RouteChange(RootPath)
    \/ handleNewChat
    \/ handleNewConversation
    \/ deleteConversation
    \/ \E c \in Shown : selectConversation(c)
    \/ toggleEditMode
    \/ \E t \in TypedTitles : titleChange(t)
    \/ handleTitleInputKeyPress
    \/ acceptClick
    \/ cancelClick
    \/ \E target \in BlurTargets : handleInputBlur(target)
    \/ handleContextMenu
    \/ \E s \in SearchTexts : handleSearch(s)
    \/ \E fails \in BOOLEAN : StoreExec(fails)
    \/ \E done \in BagToSet(settling) : lookupSettles(done)
    \/ \E done \in BagToSet(settling) : listSettles(done)
    \/ \E done \in BagToSet(settling) : updateSettles(done)

Spec == Init /\ [][Next]_vars

\* the handlers that read or write the list and the store: announcement,
\* delete, selection, search, rename by Enter and its cancel
NextList ==
    \/ handleNewConversation
    \/ deleteConversation
    \/ \E c \in Shown : selectConversation(c)
    \/ toggleEditMode
    \/ \E t \in TypedTitles : titleChange(t)
    \/ handleTitleInputKeyPress
    \/ cancelClick
    \/ \E s \in SearchTexts : handleSearch(s)
    \/ \E fails \in BOOLEAN : StoreExec(fails)
    \/ \E done \in BagToSet(settling) : lookupSettles(done)
    \/ \E done \in BagToSet(settling) : listSettles(done)
    \/ \E done \in BagToSet(settling) : updateSettles(done)

SpecList == Init /\ [][NextList]_vars

----------------------------------------------------------------------------
(* The Sidebar over a store that holds as many conversations as a load takes *)

FullStore ==
    {Conv(i, <<"a">>, Now0 - 2 * Day - i, "msgs") : i \in 1..NUM_INITIAL_CONVERSATIONS}

InitFull ==
    /\ conversations = <<>>
    /\ conversationsWithMarkers = <<>>
    /\ isEditingTitle = FALSE
    /\ editedTitle = <<>>
    /\ selectedId = Null
    /\ currentPath = RootPath
    /\ now = Now0
    /\ store = FullStore
    /\ dbQueue = <<LoadRequest>>
    /\ settling = EmptyBag
    /\ deleted = {}
    /\ issued = 1
    /\ phase = "shown"

\* the newConversation event for one of MaxConv conversations made after the mount
handleNewConversationFull ==
    /\ NextId <= NUM_INITIAL_CONVERSATIONS + MaxConv
    /\ newConversation(Conv(NextId, NewTitle, now, "msgs"))

NextFull ==
    \/ handleNewConversationFull
    \/ deleteConversation
    \/ \E s \in SearchTexts : handleSearch(s)
    \/ \E fails \in BOOLEAN : StoreExec(fails)
    \/ \E done \in BagToSet(settling) : listSettles(done)

SpecFull == InitFull /\ [][NextFull]_vars

----------------------------------------------------------------------------
(* The Grouper on its own: any list of conversations, any clock reading *)

InputLists(today) ==
    UNION {{[i \in 1..n |-> Conv(i, <<"a">>, today - age[i], "[]")] : age \in [1..n -> Ages]}
           : n \in 0..MaxLen}

InitGrouper ==
    /\ now \in {Now0, Now1}
    /\ conversations \in InputLists(now)
    /\ conversationsWithMarkers = <<>>
    /\ isEditingTitle = FALSE
    /\ editedTitle = <<>>
    /\ selectedId = Null
    /\ currentPath = RootPath
    /\ store = {}
    /\ dbQueue = <<>>
    /\ settling = EmptyBag
    /\ deleted = {}
    /\ issued = 0
    /\ phase = "input"

\* the effect on [conversations], lines 74-77
groupEffect ==
    /\ phase = "input"
    /\ phase' = "shown"
    /\ conversationsWithMarkers' = Display(conversations, now)
    /\ UNCHANGED <<conversations, isEditingTitle, editedTitle, selectedId, currentPath,
                   now, store, dbQueue, settling, deleted, issued>>

NextGrouper == groupEffect

SpecGrouper == InitGrouper /\ [][NextGrouper]_vars

----------------------------------------------------------------------------
(* The Grouper's output *)

NonMarkers == SelectSeq(conversationsWithMarkers, NotMarker)
IsMarkerItem(item) == IsMarker(item)
Markers == SelectSeq(conversationsWithMarkers, IsMarkerItem)

Occurrences(s, x) == Cardinality({i \in DOMAIN s : s[i] = x})

Label(convo) == getHeaderFromTimestamp(convo.timestamp, now)

\* C1: the display sequence without its markers holds the conversations of
\* the input, each as often as the input does, in descending order of
\* timestamp.
C1_SortedConversations ==
    phase = "shown" =>
        /\ Len(NonMarkers) = Len(conversations)
        /\ \A x \in Range(conversations) \cup Range(NonMarkers) :
               Occurrences(NonMarkers, x) = Occurrences(conversations, x)
        /\ \A i, j \in DOMAIN NonMarkers :
               i < j => NonMarkers[i].timestamp >= NonMarkers[j].timestamp

\* three conversations that arrive out of order and fall into several buckets
C1_Witness ==
    /\ phase = "shown"
    /\ Len(conversations) = 3
    /\ conversations[1].timestamp < conversations[2].timestamp
    /\ conversations[2].timestamp > conversations[3].timestamp
    /\ Len(Markers) >= 2

\* the first conversations of the maximal runs of equal labels in a sequence
RunStarts(s) == {i \in DOMAIN s : i = 1 \/ Label(s[i]) # Label(s[i - 1])}

\* C2: there are as many markers as maximal runs of equal consecutive labels
\* in the sorted sequence; a marker is followed by a conversation, carries
\* that conversation's label and is the only item between it and a
\* conversation of another label (or the start); a conversation that does not
\* start a run follows a conversation; an empty input gives an empty output.
C2_OneMarkerPerRun ==
    phase = "shown" =>
        LET D == conversationsWithMarkers
        IN  /\ Len(Markers) = Cardinality(RunStarts(sortByTimestamp(conversations)))
            /\ \A k \in DOMAIN D :
                   IF IsMarker(D[k])
                   THEN /\ k < Len(D)
                        /\ ~IsMarker(D[k + 1])
                        /\ D[k].title = Label(D[k + 1])
                        /\ k > 1 => /\ ~IsMarker(D[k - 1])
                                    /\ Label(D[k - 1]) # Label(D[k + 1])
                   ELSE /\ k > 1
                        /\ ~IsMarker(D[k - 1]) => Label(D[k - 1]) = Label(D[k])
            /\ conversations = <<>> => D = <<>>

\* a run of two conversations under one marker, and a second run
C2_Witness ==
    /\ phase = "shown"
    /\ Len(conversations) = 3
    /\ Len(Markers) = 2
    /\ \E k \in 1..(Len(conversationsWithMarkers) - 2) :
           /\ IsMarker(conversationsWithMarkers[k])
           /\ ~IsMarker(conversationsWithMarkers[k + 1])
           /\ ~IsMarker(conversationsWithMarkers[k + 2])

\* the label that the claim gives to a timestamp, by the time elapsed
LabelByElapsed(timestamp, today) ==
    LET elapsed == Abs(today - timestamp)
    IN  IF elapsed <= 24 * Hour THEN "Today"
        ELSE IF elapsed <= 48 * Hour THEN "Yesterday"
        ELSE IF elapsed <= 7 * Day THEN "Previous 7 Days"
        ELSE IF elapsed <= 30 * Day THEN "Previous 30 Days"
        ELSE MonthOf(timestamp)

\* C3: the marker of a conversation stamped at most 24 hours from now (now
\* itself included) reads Today, at most 48 hours Yesterday, at most 7 days
\* Previous 7 Days, at most 30 days Previous 30 Days, and the month otherwise.
C3_LabelByElapsed ==
    phase = "shown" =>
        \A k \in DOMAIN conversationsWithMarkers :
            IsMarker(conversationsWithMarkers[k]) /\ k < Len(conversationsWithMarkers) =>
                conversationsWithMarkers[k].title =
                    LabelByElapsed(conversationsWithMarkers[k + 1].timestamp, now)

----------------------------------------------------------------------------
(* The Sidebar's handlers *)

\* the requests that a step puts on the queue
Issued == {dbQueue'[k] : k \in (DOMAIN dbQueue') \ (DOMAIN dbQueue)}
NoUpdateIssued == \A r \in Issued : r.op # "update"

\* C4: a newConversation event delivered during a title edit ends the edit,
\* puts the announced conversation first in the list and selects it, and
\* issues no store request.
C4_NewConversationCancelsEdit ==
    [][handleNewConversation /\ isEditingTitle =>
           /\ ~isEditingTitle'
           /\ Len(conversations') = Len(conversations) + 1
           /\ SubSeq(conversations', 2, Len(conversations')) = conversations
           /\ selectedId' = conversations'[1].id
           /\ dbQueue' = dbQueue]_vars

\* C5: when the store reports a rename as successful, the list becomes the
\* list of that moment with the title of the renamed conversation replaced.
C5_RenameChangesOnlyTitle ==
    [][\A done \in BagToSet(settling) :
           updateSettles(done) /\ done.res.count > 0 =>
               conversations' = Retitled(conversations, done.req.id, done.req.text)]_vars

\* C6: a delete removes that id and nothing else from the list, issues the
\* store delete, clears the selection and goes to the root route; a route
\* lookup that settles afterwards does not select the deleted conversation.
C6_DeleteClearsSelection ==
    /\ [][deleteConversation =>
              /\ \A c \in Range(conversations) :
                     Occurrences(conversations', c) =
                         (IF c.id = selectedId THEN 0 ELSE Occurrences(conversations, c))
              /\ Len(conversations') <= Len(conversations)
              /\ \E r \in Issued : r.op = "delete" /\ r.id = selectedId
              /\ selectedId' = Null
              /\ currentPath' = RootPath]_vars
    /\ [][\A done \in BagToSet(settling) :
              lookupSettles(done) => selectedId' \notin deleted]_vars

\* C7: the cancel control, and the blur of the title input that a click on
\* it causes, end the edit and issue no store update; store and list keep
\* their titles.
C7_CancelIssuesNoUpdate ==
    [][cancelClick \/ handleInputBlur("cancel") =>
           /\ ~isEditingTitle'
           /\ NoUpdateIssued
           /\ store' = store
           /\ conversations' = conversations]_vars

\* C8: no commit trigger (Enter, accept control, blur) ends the edit by
\* itself, and an update that affected no row or was rejected leaves the
\* edit active and the list as it was.
C8_FailedCommitKeepsEdit ==
    /\ [][handleTitleInputKeyPress \/ acceptClick
              \/ (\E target \in BlurTargets : handleInputBlur(target)) =>
                  isEditingTitle' = isEditingTitle]_vars
    /\ [][(\E done \in BagToSet(settling) :
               updateSettles(done) /\ done.res.count = 0)
              \/ (StoreExec(TRUE) /\ Head(dbQueue).op = "update") =>
                  isEditingTitle' = isEditingTitle /\ conversations' = conversations]_vars

\* C9: the lookup for the id of the current route that finds no conversation
\* clears the selection instead of keeping the id that was selected before
\* (an id other than the one looked up), and so does a route without an id.
C9_MissingLookupClearsSelection ==
    /\ [][\A done \in BagToSet(settling) :
              lookupSettles(done) /\ done.res.rows = <<>>
                  /\ currentPath = ConvPath(done.req.id)
                  /\ selectedId # done.req.id => selectedId' = Null]_vars
    /\ [][RouteChange(RootPath) \/ handleNewChat => selectedId' = Null]_vars

\* C10: a click on another conversation during a title edit, the blur of
\* the title input that the click causes included, ends the edit and issues
\* no store update; the click selects the conversation and goes to its
\* route.
C10_SelectCancelsEditUnsaved ==
    /\ [][\A c \in Shown : selectConversation(c) /\ isEditingTitle =>
              /\ ~isEditingTitle'
              /\ editedTitle' = <<>>
              /\ NoUpdateIssued
              /\ selectedId' = c.id
              /\ currentPath' = ConvPath(c.id)]_vars
    /\ [][isEditingTitle /\ handleInputBlur("item") =>
              ~isEditingTitle' /\ NoUpdateIssued]_vars

----------------------------------------------------------------------------
(* Search and load *)

IsBlank(str) == \A i \in DOMAIN str : str[i] = " "

\* up to n conversations of S, the latest first
IsLatest(rows, S, n) ==
    /\ Range(rows) \subseteq S
    /\ Len(rows) = (IF Cardinality(S) < n THEN Cardinality(S) ELSE n)
    /\ \A i, j \in DOMAIN rows : i < j => rows[i].timestamp >= rows[j].timestamp
    /\ \A i, j \in DOMAIN rows : i # j => rows[i] # rows[j]
    /\ \A c \in S \ Range(rows) : \A i \in DOMAIN rows : c.timestamp <= rows[i].timestamp

\* C11: a search for the empty string or for white space only issues the
\* request of a load and no title query; the store answers it with the up to
\* 200 latest conversations in descending timestamp order, and the list
\* becomes that answer with the messages replaced by the placeholder.
C11_BlankSearchIsLoad ==
    /\ [][\A s \in SearchTexts :
              handleSearch(s) /\ IsBlank(s) => Issued = {LoadRequest}]_vars
    /\ [][StoreExec(FALSE) /\ Head(dbQueue) = LoadRequest =>
              \E done \in BagToSet(settling') :
                  /\ done.req = LoadRequest
                  /\ IsLatest(done.res.rows, store, NUM_INITIAL_CONVERSATIONS)]_vars
    /\ [][\A done \in BagToSet(settling) :
              listSettles(done) /\ done.req = LoadRequest =>
                  /\ Len(conversations') = Len(done.res.rows)
                  /\ \A i \in DOMAIN done.res.rows :
                         conversations'[i] = [done.res.rows[i] EXCEPT !.messages = "[]"]]_vars

\* the answer to a second load is about to settle, and the list holds the
\* answer to a load: the announced conversation, whose title no search
\* text matches, with the placeholder
C11_Witness ==
    /\ \E done \in BagToSet(settling) : done.req = LoadRequest
    /\ \E c \in Range(conversations) :
           c.title = NewTitle /\ c.messages = "[]"

\* C12: in every reachable state the list holds at most 200 conversations.
C12_AtMostLoadLimit == Len(conversations) <= NUM_INITIAL_CONVERSATIONS

\* C13: nothing fences the answers to overlapping searches and loads: an
\* answer that settles replaces the list by its rows whatever else is in
\* flight or has settled before, so the answer that settles last stays, and
\* the answer to an earlier request that settles later replaces a newer one.
C13_LastAnswerWins ==
    [][\A done \in BagToSet(settling) :
           listSettles(done) /\ done.res.ok =>
               /\ Len(conversations') = done.res.count
               /\ \A i \in DOMAIN conversations' :
                      /\ conversations'[i].id = done.res.rows[i].id
                      /\ conversations'[i].title = done.res.rows[i].title
                      /\ conversations'[i].timestamp = done.res.rows[i].timestamp]_vars

\* the list holds the answer to a load that the store executed after the
\* announced conversation was made, and the answer to a load executed
\* before is still to settle
C13_Witness ==
    /\ deleted = {}
    /\ \E c \in Range(conversations) :
           /\ c.title = NewTitle /\ c.messages = "[]"
           /\ \E done \in BagToSet(settling) :
                  /\ done.req.op = "load" /\ done.res.ok
                  /\ c.id \notin {done.res.rows[i].id : i \in DOMAIN done.res.rows}

----------------------------------------------------------------------------
(* Edit mode and selection *)

\* C14: the item shown with the title input is the conversation whose title
\* toggleEditMode copied into the buffer: while the input stays shown from
\* one state to the next, newConversation events and route changes
\* included, it stays with the same conversation.
C14_EditStaysWithConversation ==
    [][EditShown /\ EditShown' => selectedId' = selectedId]_vars

\* C15: a conversation that was deleted, and that the store no longer holds,
\* is not in the list: no answer to a load, a search or a rename that was
\* started before the delete puts it back.
C15_DeletedStaysOut ==
    \A c \in Range(conversations) : ~(c.id \in deleted /\ c.id \notin Ids(store))

====
